---- MODULE Spec2Model ----
(***************************************************************************)
(* Model of python/lib.c, the CPython wrapper of StringZilla: the slice    *)
(* normalizer, the memory-mapped file object, the Str view object and the  *)
(* reference-counted ownership edges between them (POSIX build).           *)
(***************************************************************************)
EXTENDS Integers, Sequences, FiniteSets, TLC

VARIABLES
    heap,   \* the objects of the extension and the OS resources they hold
    ret,    \* what the last call into the extension returned
    q       \* a call of a pure entry point: its arguments and its result

vars == <<heap, ret, q>>

(***************************************************************************)
(* Bounds of the model.                                                    *)
(***************************************************************************)
WordBits == 4   \* width of size_t / ssize_t in the model (64 in the build)
MaxLen == 2     \* longest file, buffer or view content
MaxFiles == 1   \* MemoryMappedFile objects ever allocated
MaxStrs == 2    \* Str objects ever allocated
MaxOpens == 2   \* successful open(2) calls
MaxReinits == 1 \* __init__ calls on Str objects that were constructed before

(***************************************************************************)
(* Machine integers: size_t is 0 .. 2^w - 1, ssize_t is -2^(w-1) ..        *)
(* 2^(w-1) - 1, conversions wrap.                                          *)
(***************************************************************************)
Modulus == 2 ^ WordBits
PY_SSIZE_T_MAX == Modulus \div 2 - 1
PY_SSIZE_T_MIN == 0 - Modulus \div 2
SizeT == 0 .. Modulus - 1
SSizeT == PY_SSIZE_T_MIN .. PY_SSIZE_T_MAX

ToSizeT(x) == x % Modulus
ToSSizeT(x) == LET m == x % Modulus IN IF m > PY_SSIZE_T_MAX THEN m - Modulus ELSE m

(***************************************************************************)
(* slice(): python/lib.c 70-89.                                            *)
(***************************************************************************)
\* `if (start < 0) start += length;`: the sum is taken in size_t and stored
\* back into the signed variable.
NormalizeNegative(index, length) ==
    IF index < 0 THEN ToSSizeT(ToSizeT(index) + length) ELSE index

\* `if (start < 0) start = 0; if (start > (ssize_t)length) start = length;`
ClampIndex(index, length) ==
    LET lo == IF index < 0 THEN 0 ELSE index
    IN  IF lo > ToSSizeT(length) THEN ToSSizeT(length) ELSE lo

EnsureOrdered_Skip(start, end) == start

\* `if (start > end) start = end;`
EnsureOrdered(start, end) == IF start > end THEN end ELSE start

slice(length, start, end) ==
    LET s1 == ClampIndex(NormalizeNegative(start, length), length)
        e1 == ClampIndex(NormalizeNegative(end, length), length)
        s2 == EnsureOrdered(s1, e1)
    IN  [offset |-> ToSizeT(s2), length |-> ToSizeT(e1 - s2)]

(***************************************************************************)
(* Objects and OS resources.                                               *)
(*                                                                         *)
(* heap.files, heap.strs: the MemoryMappedFile and Str objects ever        *)
(* allocated, in allocation order. `refcnt` is ob_refcnt, `held` says      *)
(* whether the calling Python program still holds its reference.           *)
(* heap.fds, heap.maps: every descriptor open(2) and every mapping mmap(2) *)
(* ever returned, with how often each was closed / unmapped. Descriptor    *)
(* number k + 2 is the k-th one returned; mapping k is region k of the     *)
(* address space. A pointer is a region and an offset into it.             *)
(***************************************************************************)
NULL == <<"null", 0>>            \* no object
NotStringLike == <<"other", 0>>  \* an object that is not string-like (an int)
BUFFER == <<"buf", 0>>           \* a native Python str / bytes object
FileRef(f) == <<"file", f>>
StrRef(j) == <<"str", j>>

NullPtr == [reg |-> 0, off |-> 0]
BufferRegion == -1
BufferLen == MaxLen              \* the native buffer's length in bytes

\* The two builds of the file: the #else branch (POSIX) and the WIN32 branch.
Platforms == {"posix", "windows"}

EmptyHeap(platform) ==
    [platform |-> platform,
     files |-> <<>>, strs |-> <<>>, fds |-> <<>>, maps |-> <<>>,
     stray |-> FALSE,    \* the destructor released a handle that was never acquired
     reinits |-> 0]      \* Str.__init__ calls on constructed objects so far

\* Descriptors and HANDLEs share one table; a handle's kind is "file" or
\* "mapping". INVALID_HANDLE_VALUE is what CreateFile returns on failure.
INVALID_HANDLE_VALUE == -1
FdNumber(k) == k + 2
FdIndex(fd) == fd - 2
FilesOpened(h) == Cardinality({k \in DOMAIN h.fds : h.fds[k].kind = "file"})

\* close(2) / CloseHandle. Closing a number that was never returned fails and
\* changes nothing; `teardown` marks such a call when the destructor makes it.
OsClose(h, fd, teardown) ==
    IF FdIndex(fd) \in DOMAIN h.fds
    THEN [h EXCEPT !.fds[FdIndex(fd)].open = FALSE,
                   !.fds[FdIndex(fd)].closes = @ + 1]
    ELSE [h EXCEPT !.stray = @ \/ teardown]

\* A descriptor or handle the OS returns: the next entry of the table.
OsOpen(h, f, kind) ==
    [h EXCEPT !.fds = Append(@, [owner |-> f, kind |-> kind, open |-> TRUE, closes |-> 0])]

\* munmap(2) / UnmapViewOfFile of the mapping that starts at `ptr`.
OsMunmap(h, ptr) ==
    IF ptr.reg \in DOMAIN h.maps
    THEN [h EXCEPT !.maps[ptr.reg].mapped = FALSE,
                   !.maps[ptr.reg].unmaps = @ + 1]
    ELSE [h EXCEPT !.stray = TRUE]

\* mmap(2) / MapViewOfFile: a new region, made from the given handles.
OsMmap(h, f, handles, size) ==
    [h EXCEPT !.maps = Append(@, [owner |-> f, handles |-> handles, len |-> size,
                                  mapped |-> TRUE, unmaps |-> 0])]

\* MemoryMappedFile_dealloc, WIN32 branch: python/lib.c 171-182, 194.
MemoryMappedFile_dealloc_windows(h, f) ==
    LET self == h.files[f]
        h1 == IF self.start # NullPtr
              THEN [OsMunmap(h, self.start) EXCEPT !.files[f].start = NullPtr]
              ELSE h
        h2 == IF self.mapping_handle # 0
              THEN [OsClose(h1, self.mapping_handle, TRUE)
                        EXCEPT !.files[f].mapping_handle = 0]
              ELSE h1
        h3 == IF self.file_handle # 0
              THEN [OsClose(h2, self.file_handle, TRUE)
                        EXCEPT !.files[f].file_handle = 0]
              ELSE h2
    IN  [h3 EXCEPT !.files[f].state = "freed"]

\* MemoryMappedFile_dealloc, POSIX branch: python/lib.c 184-194.
MemoryMappedFile_dealloc_posix(h, f) ==
    LET self == h.files[f]
        h1 == IF self.start # NullPtr
              THEN [OsMunmap(h, self.start) EXCEPT !.files[f].start = NullPtr,
                                                  !.files[f].length = 0]
              ELSE h
        h2 == IF self.file_descriptor # 0
              THEN [OsClose(h1, self.file_descriptor, TRUE)
                        EXCEPT !.files[f].file_descriptor = 0]
              ELSE h1
    IN  [h2 EXCEPT !.files[f].state = "freed"]

\* MemoryMappedFile_dealloc: python/lib.c 169-195.
MemoryMappedFile_dealloc(h, f) ==
    IF h.platform = "windows" THEN MemoryMappedFile_dealloc_windows(h, f)
    ELSE MemoryMappedFile_dealloc_posix(h, f)

\* What MemoryMappedFile_new leaves in the fresh object: python/lib.c 199-210.
\* Of the handle fields, a build has file_descriptor or the two HANDLEs; the
\* others stay 0.
NewFileObject ==
    [state |-> "live", refcnt |-> 1, held |-> TRUE,
     file_descriptor |-> 0, file_handle |-> 0, mapping_handle |-> 0,
     start |-> NullPtr, length |-> 0]

\* The outcomes of opening a path: the arguments are not a string, the path
\* does not open, fstat fails (POSIX), CreateFileMapping fails (WIN32), mmap
\* or MapViewOfFile fails, or every step succeeds.
OpenOutcomes(platform) ==
    IF platform = "windows" THEN {"badarg", "nofile", "nomapping", "nomap", "ok"}
    ELSE {"badarg", "nofile", "nostat", "nomap", "ok"}
FileSizes == {MaxLen}

\* The result of MemoryMappedFile_init: the heap, the error raised ("" for
\* none), the step that failed, the handles (entries of the table) and the
\* mapping (0 for none) this call acquired.
InitResult(h, err, step, acquired, map) ==
    [heap |-> h, err |-> err, step |-> step, acquired |-> acquired, map |-> map]

\* MemoryMappedFile_init, WIN32 branch: python/lib.c 219-243, 265.
MemoryMappedFile_init_windows(h, f, outcome, size) ==
    LET opened == outcome # "nofile"
        fh == IF opened THEN FdNumber(Len(h.fds) + 1) ELSE INVALID_HANDLE_VALUE
        h1 == [(IF opened THEN OsOpen(h, f, "file") ELSE h)
                   EXCEPT !.files[f].file_handle = fh]
        mh == FdNumber(Len(h1.fds) + 1)
        h2 == [OsOpen(h1, f, "mapping") EXCEPT !.files[f].mapping_handle = mh]
    IN  IF ~opened
        THEN InitResult(h1, "Couldn't map the file!", "open", {}, 0)
        ELSE IF outcome = "nomapping"
        THEN InitResult([OsClose([h1 EXCEPT !.files[f].mapping_handle = 0], fh, FALSE)
                             EXCEPT !.files[f].file_handle = 0],
                        "Couldn't map the file!", "mmap", {FdIndex(fh)}, 0)
        ELSE IF outcome = "nomap"
        THEN InitResult([OsClose(OsClose(h2, mh, FALSE), fh, FALSE)
                             EXCEPT !.files[f].mapping_handle = 0,
                                    !.files[f].file_handle = 0],
                        "Couldn't map the file!", "mmap", {FdIndex(fh), FdIndex(mh)}, 0)
        ELSE LET m == Len(h2.maps) + 1
             IN  InitResult([OsMmap(h2, f, {FdIndex(fh), FdIndex(mh)}, size)
                                 EXCEPT !.files[f].start = [reg |-> m, off |-> 0],
                                        !.files[f].length = size],
                            "", "none", {FdIndex(fh), FdIndex(mh)}, m)


\* `self->file_descriptor = 0;` on the two failure paths: python/lib.c 249, 257.
FdAfterFailure(fd) == 0

\* MemoryMappedFile_init, POSIX branch: python/lib.c 245-262, 265. open's
\* return value is not tested: on failure fstat is called on -1 and fails.
MemoryMappedFile_init_posix(h, f, outcome, size) ==
    LET opened == outcome # "nofile"
        fd == IF opened THEN FdNumber(Len(h.fds) + 1) ELSE -1
        h1 == [(IF opened THEN OsOpen(h, f, "file") ELSE h)
                   EXCEPT !.files[f].file_descriptor = fd]
        got == IF opened THEN {FdIndex(fd)} ELSE {}
    IN  IF ~opened \/ outcome = "nostat"
        THEN InitResult([OsClose(h1, fd, FALSE)
                             EXCEPT !.files[f].file_descriptor = FdAfterFailure(fd)],
                        "Can't retrieve file size!",
                        IF opened THEN "fstat" ELSE "open", got, 0)
        ELSE IF outcome = "nomap"
        THEN InitResult([OsClose(h1, fd, FALSE)
                             EXCEPT !.files[f].file_descriptor = FdAfterFailure(fd)],
                        "Couldn't map the file!", "mmap", got, 0)
        ELSE LET m == Len(h1.maps) + 1
             IN  InitResult([OsMmap(h1, f, got, size)
                                 EXCEPT !.files[f].start = [reg |-> m, off |-> 0],
                                        !.files[f].length = size],
                            "", "none", got, m)

\* MemoryMappedFile_init: python/lib.c 213-266.
MemoryMappedFile_init(h, f, outcome, size) ==
    IF outcome = "badarg" THEN InitResult(h, "TypeError", "args", {}, 0)
    ELSE IF h.platform = "windows" THEN MemoryMappedFile_init_windows(h, f, outcome, size)
    ELSE MemoryMappedFile_init_posix(h, f, outcome, size)

(***************************************************************************)
(* Reference counts. The native buffer is owned by the interpreter and its *)
(* count is not followed.                                                  *)
(***************************************************************************)
Py_INCREF(h, o) ==
    IF o[1] = "file" THEN [h EXCEPT !.files[o[2]].refcnt = @ + 1]
    ELSE IF o[1] = "str" THEN [h EXCEPT !.strs[o[2]].refcnt = @ + 1]
    ELSE h

RECURSIVE Py_DECREF(_, _)
RECURSIVE Str_dealloc(_, _)

\* Py_DECREF: the count drops and at zero tp_dealloc of the type runs
\* (python/lib.c 279, 521).
Py_DECREF(h, o) ==
    IF o[1] = "file"
    THEN LET h1 == [h EXCEPT !.files[o[2]].refcnt = @ - 1]
         IN  IF h1.files[o[2]].refcnt = 0 THEN MemoryMappedFile_dealloc(h1, o[2]) ELSE h1
    ELSE IF o[1] = "str"
    THEN LET h1 == [h EXCEPT !.strs[o[2]].refcnt = @ - 1]
         IN  IF h1.strs[o[2]].refcnt = 0 THEN Str_dealloc(h1, o[2]) ELSE h1
    ELSE h

\* `Py_XDECREF(self->parent);`: python/lib.c 348.
Str_release(h, parent) == Py_DECREF(h, parent)

\* Str_dealloc: python/lib.c 346-350.
Str_dealloc(h, j) ==
    LET h1 == IF h.strs[j].parent # NULL THEN Str_release(h, h.strs[j].parent) ELSE h
    IN  [h1 EXCEPT !.strs[j].state = "freed"]

(***************************************************************************)
(* Str.                                                                    *)
(***************************************************************************)
PtrAdd(ptr, n) == [reg |-> ptr.reg, off |-> (ptr.off + n) % Modulus]

\* export_string_like: python/lib.c 91-122.
export_string_like(h, o) ==
    IF o[1] = "buf"
    THEN [ok |-> TRUE, start |-> [reg |-> BufferRegion, off |-> 0], length |-> BufferLen]
    ELSE IF o[1] = "str"
    THEN [ok |-> TRUE, start |-> h.strs[o[2]].start, length |-> h.strs[o[2]].length]
    ELSE IF o[1] = "file"
    THEN [ok |-> TRUE, start |-> h.files[o[2]].start, length |-> h.files[o[2]].length]
    ELSE [ok |-> FALSE, start |-> NullPtr, length |-> 0]

\* What Str_new leaves in the fresh object: python/lib.c 334-344.
NewStrObject ==
    [state |-> "live", refcnt |-> 1, held |-> TRUE,
     parent |-> NULL, start |-> NullPtr, length |-> 0]

Str_init_retain_Missing(h, parent) == h

\* `Py_INCREF(parent);`: python/lib.c 319.
Str_init_retain(h, parent) == Py_INCREF(h, parent)

\* Str_init: python/lib.c 297-332. Returns the heap and the error ("" for none).
Str_init(h, j, parent, from, to) ==
    LET x == export_string_like(h, parent)
    IN  IF parent # NULL /\ ~x.ok
        THEN [heap |-> h, err |-> "Unsupported parent type"]
        ELSE
        LET h1 == IF parent = NULL
                  THEN [h EXCEPT !.strs[j].start = NullPtr, !.strs[j].length = 0]
                  ELSE Str_init_retain(
                           [h EXCEPT !.strs[j].start = x.start,
                                     !.strs[j].length = x.length,
                                     !.strs[j].parent = parent], parent)
            n == slice(h1.strs[j].length, from, to)
        IN  [heap |-> [h1 EXCEPT !.strs[j].start = PtrAdd(@, n.offset),
                                 !.strs[j].length = n.length],
             err |-> ""]

\* PySlice_AdjustIndices of CPython as Str_subscript calls it
\* (python/lib.c 374): each index is brought into [0, length] (step > 0) or
\* [-1, length - 1] (step < 0); the two are not put in order.
AdjustIndex(index, length, step) ==
    IF index < 0
    THEN LET i == ToSSizeT(index + length)
         IN  IF i < 0 THEN (IF step < 0 THEN -1 ELSE 0) ELSE i
    ELSE IF index >= length
         THEN (IF step < 0 THEN length - 1 ELSE length)
         ELSE index

PySlice_AdjustIndices(length, start, stop, step) ==
    [start |-> AdjustIndex(start, length, step), stop |-> AdjustIndex(stop, length, step)]

\* `Py_INCREF(self);`: python/lib.c 393.
Str_subscript_retain(h, self) == Py_INCREF(h, self)

\* Str_subscript with a slice key: python/lib.c 369-395. Returns the heap, the
\* object returned (NULL on error) and the error.
Str_subscript(h, j, start, stop, step) ==
    LET self == h.strs[j]
        a == PySlice_AdjustIndices(ToSSizeT(self.length), start, stop, step)
    IN  IF step # 1
        THEN [heap |-> h, result |-> NULL, err |-> "Efficient step is not supported"]
        ELSE
        LET k == Len(h.strs) + 1
            self_slice == [state |-> "live", refcnt |-> 1, held |-> TRUE,
                           parent |-> StrRef(j),
                           start |-> PtrAdd(self.start, a.start),
                           length |-> ToSizeT(a.stop - a.start)]
        IN  [heap |-> Str_subscript_retain([h EXCEPT !.strs = Append(@, self_slice)],
                                           StrRef(j)),
             result |-> StrRef(k), err |-> ""]

\* The empty native str that Str_getslice returns for an empty range.
EmptyUnicode == <<"unicode", 0>>

\* Str_getslice: python/lib.c 424-466. An argument is <<>> (absent or None) or
\* <<i>> (the integer i).
Str_getslice(h, j, start_obj, end_obj) ==
    LET self == h.strs[j]
        start == IF start_obj = <<>> THEN 0 ELSE start_obj[1]
        end == IF end_obj = <<>> THEN ToSSizeT(self.length) ELSE end_obj[1]
        n == slice(self.length, start, end)
    IN  IF n.length = 0
        THEN [heap |-> h, result |-> EmptyUnicode, err |-> ""]
        ELSE
        LET k == Len(h.strs) + 1
            new_str == [state |-> "live", refcnt |-> 1, held |-> TRUE,
                        parent |-> StrRef(j),
                        start |-> PtrAdd(self.start, n.offset),
                        length |-> n.length]
        IN  [heap |-> Py_INCREF([h EXCEPT !.strs = Append(@, new_str)], StrRef(j)),
             result |-> StrRef(k), err |-> ""]

(***************************************************************************)
(* The calls a Python program makes. It passes only objects it holds.      *)
(***************************************************************************)
LiveFiles(h) == {f \in DOMAIN h.files : h.files[f].state = "live"}
LiveStrs(h) == {j \in DOMAIN h.strs : h.strs[j].state = "live"}
HeldFiles(h) == {f \in LiveFiles(h) : h.files[f].held}
HeldStrs(h) == {j \in LiveStrs(h) : h.strs[j].held}
Held(h) == {BUFFER} \cup {FileRef(f) : f \in HeldFiles(h)}
                    \cup {StrRef(j) : j \in HeldStrs(h)}

\* The bounds the program passes: -1, positions inside a view, and the default
\* upper bound; an optional bound may also be absent (None).
Indices == (-1 .. MaxLen - 1) \cup {PY_SSIZE_T_MAX}
OptionalIndices == {<<>>} \cup {<<i>> : i \in -1 .. MaxLen - 1}

NoRet == [op |-> "none"]

\* Whether the bounds of a slicing call are out of order once a negative
\* bound is counted from the end and both are brought into [0, length]
\* (in unbounded integers): the case the call has to answer with an empty
\* result. Recorded with the call's result.
BoundFromEnd(i, length) == IF i < 0 THEN i + length ELSE i
BoundInRange(i, length) == IF i < 0 THEN 0 ELSE IF i > length THEN length ELSE i
BoundsReversed(length, from, to) ==
    BoundInRange(BoundFromEnd(from, length), length)
        > BoundInRange(BoundFromEnd(to, length), length)

Init == heap \in {EmptyHeap(p) : p \in Platforms} /\ ret = NoRet /\ q = [op |-> "none"]

\* MemoryMappedFile(path): tp_new, tp_init, and Py_DECREF of the object when
\* tp_init fails (python/lib.c 277-279).
ConstructFile(outcome, size) ==
    /\ Len(heap.files) < MaxFiles
    /\ outcome \in OpenOutcomes(heap.platform)
    /\ outcome \notin {"badarg", "nofile"} => FilesOpened(heap) < MaxOpens
    /\ LET f == Len(heap.files) + 1
           h0 == [heap EXCEPT !.files = Append(@, NewFileObject)]
           r == MemoryMappedFile_init(h0, f, outcome, size)
       IN  /\ heap' = IF r.err = "" THEN r.heap
                      ELSE Py_DECREF([r.heap EXCEPT !.files[f].held = FALSE], FileRef(f))
           /\ ret' = [op |-> "MemoryMappedFile_init", self |-> f, fresh |-> TRUE,
                      size |-> size, err |-> r.err, step |-> r.step,
                      acquired |-> r.acquired, map |-> r.map]
    /\ UNCHANGED q

\* MemoryMappedFile_new ends without a return statement (python/lib.c 197-211):
\* what the caller receives is not defined. ConstructFile is the build in
\* which it receives the object; here it receives something else, the call
\* fails, tp_init never runs and the object stays allocated, unreferenced.
ConstructFileLost ==
    /\ Len(heap.files) < MaxFiles
    /\ heap' = [heap EXCEPT !.files = Append(@, [NewFileObject EXCEPT !.held = FALSE])]
    /\ ret' = [op |-> "MemoryMappedFile_new", err |-> "SystemError"]
    /\ UNCHANGED q

\* file.__init__(path) on an object that was constructed before.
ReinitFile(f, outcome, size) ==
    /\ f \in HeldFiles(heap)
    /\ outcome \in OpenOutcomes(heap.platform)
    /\ outcome \notin {"badarg", "nofile"} => FilesOpened(heap) < MaxOpens
    /\ LET r == MemoryMappedFile_init(heap, f, outcome, size)
       IN  /\ heap' = r.heap
           /\ ret' = [op |-> "MemoryMappedFile_init", self |-> f, fresh |-> FALSE,
                      size |-> size, err |-> r.err, step |-> r.step,
                      acquired |-> r.acquired, map |-> r.map]
    /\ UNCHANGED q

\* Str(parent, from, to): tp_new, tp_init, and Py_DECREF of the object when
\* tp_init fails (python/lib.c 519-521).
ConstructStr(parent, from, to) ==
    /\ Len(heap.strs) < MaxStrs
    /\ LET j == Len(heap.strs) + 1
           h0 == [heap EXCEPT !.strs = Append(@, NewStrObject)]
           r == Str_init(h0, j, parent, from, to)
       IN  /\ heap' = IF r.err = "" THEN r.heap
                      ELSE Py_DECREF([r.heap EXCEPT !.strs[j].held = FALSE], StrRef(j))
           /\ ret' = [op |-> "Str_init", err |-> r.err]
    /\ UNCHANGED q

\* view.__init__(parent) on an object that was constructed before, with the
\* default bounds (python/lib.c 299-300).
ReinitStr(j, parent) ==
    /\ j \in HeldStrs(heap)
    /\ heap.reinits < MaxReinits
    /\ LET r == Str_init(heap, j, parent, 0, PY_SSIZE_T_MAX)
       IN  /\ heap' = [r.heap EXCEPT !.reinits = @ + 1]
           /\ ret' = [op |-> "Str_init", err |-> r.err]
    /\ UNCHANGED q

\* view[start:stop:step]
Subscript(j, start, stop, step) ==
    /\ j \in HeldStrs(heap)
    /\ Len(heap.strs) < MaxStrs
    /\ LET r == Str_subscript(heap, j, start, stop, step)
       IN  /\ heap' = r.heap
           /\ ret' = [op |-> "Str_subscript", err |-> r.err,
                      reversed |-> BoundsReversed(heap.strs[j].length, start, stop),
                      len |-> IF r.err = "" THEN r.heap.strs[r.result[2]].length ELSE -1]
    /\ UNCHANGED q

\* Str_getslice(view, start, end)
Getslice(j, start_obj, end_obj) ==
    /\ j \in HeldStrs(heap)
    /\ Len(heap.strs) < MaxStrs
    /\ LET r == Str_getslice(heap, j, start_obj, end_obj)
       IN  /\ heap' = r.heap
           /\ ret' = [op |-> "Str_getslice", err |-> r.err,
                      reversed |-> BoundsReversed(heap.strs[j].length,
                                      IF start_obj = <<>> THEN 0 ELSE start_obj[1],
                                      IF end_obj = <<>> THEN heap.strs[j].length
                                                        ELSE end_obj[1]),
                      len |-> IF r.result = EmptyUnicode THEN 0
                              ELSE r.heap.strs[r.result[2]].length]
    /\ UNCHANGED q

\* The program drops its reference to an object (del x, or x goes out of scope).
Drop(o) ==
    /\ o \in Held(heap) \ {BUFFER}
    /\ heap' = Py_DECREF(IF o[1] = "file" THEN [heap EXCEPT !.files[o[2]].held = FALSE]
                                          ELSE [heap EXCEPT !.strs[o[2]].held = FALSE], o)
    /\ ret' = [op |-> "drop", err |-> ""]
    /\ UNCHANGED q

Next ==
    \/ \E outcome \in OpenOutcomes(heap.platform), size \in FileSizes :
          ConstructFile(outcome, size)
    \/ ConstructFileLost
    \/ \E f \in DOMAIN heap.files, outcome \in OpenOutcomes(heap.platform),
          size \in FileSizes : ReinitFile(f, outcome, size)
    \/ \E parent \in Held(heap) \cup {NULL, NotStringLike}, from \in Indices, to \in Indices :
          ConstructStr(parent, from, to)
    \/ \E j \in DOMAIN heap.strs, parent \in Held(heap) \cup {NULL, NotStringLike} :
          ReinitStr(j, parent)
    \/ \E j \in DOMAIN heap.strs, start \in Indices, stop \in Indices :
          Subscript(j, start, stop, 1)
    \/ \E j \in DOMAIN heap.strs : Subscript(j, 0, PY_SSIZE_T_MAX, 2)
    \/ \E j \in DOMAIN heap.strs, start_obj \in OptionalIndices, end_obj \in OptionalIndices :
          Getslice(j, start_obj, end_obj)
    \/ \E o \in Held(heap) : Drop(o)

Spec == Init /\ [][Next]_vars


(***************************************************************************)
(* What the program can still reach: the objects it holds and, from a view *)
(* it can reach, the view's parent.                                        *)
(***************************************************************************)
RECURSIVE ParentClosure(_, _)
ParentClosure(h, S) ==
    LET more == {h.strs[o[2]].parent : o \in {x \in S : x[1] = "str"}} \ {NULL}
    IN  IF more \subseteq S THEN S ELSE ParentClosure(h, S \cup more)

Reachable(h) == ParentClosure(h, Held(h))
OwnerChain(h, j) == ParentClosure(h, {StrRef(j)})

\* The byte range of an owner, as export_string_like reports it.
InsideOwner(h, j) ==
    LET s == h.strs[j]
        x == export_string_like(h, s.parent)
    IN  \/ s.length = 0
        \/ /\ s.start.reg = x.start.reg
           /\ x.start.off <= s.start.off
           /\ s.start.off + s.length <= x.start.off + x.length

\* C2: every live view's byte range [start, start + length) lies inside the
\* byte range of its owner (the parent view, file or buffer).
C2_ViewInsideOwner ==
    \A j \in LiveStrs(heap) : heap.strs[j].parent # NULL => InsideOwner(heap, j)

\* C3: while a view is reachable, no mapped file on its owner chain has been
\* torn down and the mapping its bytes lie in is still mapped.
C3_MappedWhileReferenced ==
    \A j \in DOMAIN heap.strs :
        StrRef(j) \in Reachable(heap) =>
            /\ \A o \in OwnerChain(heap, j) :
                  /\ o[1] = "file" => heap.files[o[2]].state = "live"
                  /\ o[1] = "str" => heap.strs[o[2]].state = "live"
            /\ heap.strs[j].start.reg \in DOMAIN heap.maps
                  => heap.maps[heap.strs[j].start.reg].mapped

\* Two views of one mapped file were made, one was dropped and freed, the
\* program dropped its own reference to the file, and the sibling still reads
\* the mapping.
C3_Witness ==
    \E j1, j2 \in DOMAIN heap.strs, f \in DOMAIN heap.files :
        /\ j1 # j2
        /\ heap.strs[j1].parent = FileRef(f) /\ heap.strs[j2].parent = FileRef(f)
        /\ heap.strs[j1].state = "freed"
        /\ heap.strs[j2].state = "live" /\ heap.strs[j2].held
        /\ heap.strs[j2].length > 0
        /\ ~heap.files[f].held
        /\ heap.strs[j2].start.reg \in DOMAIN heap.maps
        /\ heap.maps[heap.strs[j2].start.reg].mapped

\* C4: the mapping and the descriptor of every successful open are released
\* at most once, and exactly once as soon as the program can no longer reach
\* the file object that owns them.
C4_ReleasedExactlyOnce ==
    \A m \in DOMAIN heap.maps :
        LET map == heap.maps[m]
        IN  /\ map.unmaps <= 1
            /\ \A k \in map.handles : heap.fds[k].closes <= 1
            /\ FileRef(map.owner) \notin Reachable(heap)
                  => /\ map.unmaps = 1
                     /\ \A k \in map.handles : heap.fds[k].closes = 1

FailedStep == {"open", "fstat", "mmap"}

\* C5: when MemoryMappedFile_init fails at opening the path, determining
\* the size or mapping, every handle it acquired has been closed, the object
\* counts no descriptor or handle as acquired, every mapping the object still
\* counts as acquired is a mapped one, and a fresh object has been torn down;
\* no teardown releases a handle that was never acquired, and nothing is
\* released twice.
C5_FailedOpenRollsBack ==
    /\ (ret.op = "MemoryMappedFile_init" /\ ret.step \in FailedStep) =>
          LET self == heap.files[ret.self]
          IN  /\ \A k \in ret.acquired : ~heap.fds[k].open /\ heap.fds[k].closes = 1
              /\ ret.map = 0
              /\ self.file_descriptor = 0
              /\ self.file_handle = 0 /\ self.mapping_handle = 0
              /\ self.start # NullPtr => /\ self.start.reg \in DOMAIN heap.maps
                                         /\ heap.maps[self.start.reg].mapped
              /\ ret.fresh => self.state = "freed" /\ self.start = NullPtr
    /\ ~heap.stray
    /\ \A k \in DOMAIN heap.fds : heap.fds[k].closes <= 1
    /\ \A m \in DOMAIN heap.maps : heap.maps[m].unmaps <= 1

\* The failure of the specification's taxonomy that a raised message stands for.
FailureOf(err) ==
    IF err = "Can't retrieve file size!" THEN "IOError"
    ELSE IF err = "Couldn't map the file!" THEN "MapFailed"
    ELSE "Other"

\* C6: open(path) reports NotFound when the path does not open, IOError when
\* its size cannot be determined, MapFailed when mmap fails, and on success
\* the object exposes the start of the new mapping and the file's size.
C6_DistinctFailures ==
    ret.op = "MemoryMappedFile_init" =>
        /\ ret.step = "open" => FailureOf(ret.err) = "NotFound"
        /\ ret.step = "fstat" => FailureOf(ret.err) = "IOError"
        /\ ret.step = "mmap" => FailureOf(ret.err) = "MapFailed"
        /\ ret.err = "" => /\ heap.files[ret.self].start = [reg |-> ret.map, off |-> 0]
                           /\ heap.files[ret.self].length = ret.size

\* C7: slicing with bounds that are out of order after negative-index
\* adjustment and clamping succeeds and yields a result of length 0, through
\* the subscript and through getslice.
C7_ReversedBoundsGiveEmpty ==
    (ret.op \in {"Str_subscript", "Str_getslice"} /\ ret.reversed) =>
        ret.err = "" /\ ret.len = 0

(***************************************************************************)
(* SpecSlice: slice() called on every length and every pair of indices.    *)
(***************************************************************************)
SliceCalls ==
    [op : {"slice"}, length : SizeT, start : SSizeT, end : SSizeT, done : {FALSE}]

InitSlice == heap = EmptyHeap("posix") /\ ret = NoRet /\ q \in SliceCalls

CallSlice ==
    /\ q.op = "slice" /\ ~q.done
    /\ q' = [op |-> "slice", length |-> q.length, start |-> q.start, end |-> q.end,
             done |-> TRUE, result |-> slice(q.length, q.start, q.end)]
    /\ UNCHANGED <<heap, ret>>

NextSlice == CallSlice

SpecSlice == InitSlice /\ [][NextSlice]_vars

\* C1: for every length and every signed start, end, slice() returns
\* (offset, normalized_length) with 0 <= offset <= offset + normalized_length
\* <= length (as integers, without wrap-around).
C1_SliceInRange ==
    (q.op = "slice" /\ q.done) =>
        /\ 0 <= q.result.offset
        /\ q.result.offset <= q.result.offset + q.result.length
        /\ q.result.offset + q.result.length <= q.length

\* A call with out-of-order, negative and out-of-range bounds has returned.
C1_Witness ==
    /\ q.op = "slice" /\ q.done
    /\ q.length = 3 /\ q.start = -1 /\ q.end = PY_SSIZE_T_MIN
    /\ q.result = [offset |-> 0, length |-> 0]

(***************************************************************************)
(* Reading through a view. Memory maps the addresses of a native buffer    *)
(* and of one mapping to bytes; a view operand is what export_string_like  *)
(* reports for it: [ok, start, length].                                    *)
(***************************************************************************)
Bytes == 0 .. 1
Regions == {BufferRegion, 1}
Addresses == {[reg |-> r, off |-> k] : r \in Regions, k \in 0 .. MaxLen - 1}
Memories == [Addresses -> Bytes]

\* The byte at an address; -1 stands for what a read outside every region gives.
ReadByte(mem, ptr) == IF ptr \in DOMAIN mem THEN mem[ptr] ELSE -1

\* The exported ranges of the string-like objects over this memory: every
\* range of each region, and the empty view Str() with no range.
Ranges ==
    {[ok |-> TRUE, start |-> [reg |-> r, off |-> k], length |-> n] :
        r \in Regions, k \in 0 .. MaxLen, n \in 0 .. MaxLen}
NotExported == [ok |-> FALSE, start |-> NullPtr, length |-> 0]
Views ==
    {v \in Ranges : v.start.off + v.length <= MaxLen}
        \cup {[ok |-> TRUE, start |-> NullPtr, length |-> 0]}
Operands == Views \cup {NotExported}

\* The bytes of a view, in order.
Content(mem, v) == [k \in 1 .. v.length |-> ReadByte(mem, PtrAdd(v.start, k - 1))]

Str_getitem_OffByOne(mem, self, i) ==
    LET i1 == IF i < 0 THEN ToSSizeT(ToSizeT(i) + self.length) ELSE i
    IN  IF i1 < 0 \/ ToSizeT(i1) > self.length
        THEN [err |-> "Index out of range", byte |-> -1]
        ELSE [err |-> "", byte |-> ReadByte(mem, PtrAdd(self.start, i1))]

\* Str_getitem: python/lib.c 354-367.
Str_getitem(mem, self, i) ==
    LET i1 == IF i < 0 THEN ToSSizeT(ToSizeT(i) + self.length) ELSE i
    IN  IF i1 < 0 \/ ToSizeT(i1) >= self.length
        THEN [err |-> "Index out of range", byte |-> -1]
        ELSE [err |-> "", byte |-> ReadByte(mem, PtrAdd(self.start, i1))]

\* Whether the needle's bytes stand at position p of the haystack.
MatchesAt(mem, haystack, needle, p) ==
    /\ p + needle.length <= haystack.length
    /\ \A k \in 0 .. needle.length - 1 :
          ReadByte(mem, PtrAdd(haystack.start, p + k))
              = ReadByte(mem, PtrAdd(needle.start, k))

\* The search kernel of stringzilla.h: the first position of the needle in
\* the haystack, position 0 for an empty needle, haystack.length when there
\* is none.
strzl_neon_find_substr(mem, haystack, needle) ==
    LET hits == {p \in 0 .. haystack.length : MatchesAt(mem, haystack, needle, p)}
    IN  IF hits = {} THEN haystack.length
        ELSE CHOOSE p \in hits : \A p2 \in hits : p <= p2

\* Str_contains: python/lib.c 406-420. 1, 0, or -1 with a TypeError.
Str_contains(mem, self, arg) ==
    IF ~arg.ok THEN -1
    ELSE IF strzl_neon_find_substr(mem, self, arg) # self.length THEN 1 ELSE 0

\* memcmp(a, b, n): the difference of the first pair of bytes that differ.
RECURSIVE memcmp(_, _, _, _)
memcmp(mem, a, b, n) ==
    IF n = 0 THEN 0
    ELSE IF ReadByte(mem, a) # ReadByte(mem, b) THEN ReadByte(mem, a) - ReadByte(mem, b)
    ELSE memcmp(mem, PtrAdd(a, 1), PtrAdd(b, 1), n - 1)

LengthOrder_Reversed(a_length, b_length) ==
    (IF a_length < b_length THEN 1 ELSE 0) - (IF a_length > b_length THEN 1 ELSE 0)

\* `(a_length > b_length) - (a_length < b_length)`: python/lib.c 483.
LengthOrder(a_length, b_length) ==
    (IF a_length > b_length THEN 1 ELSE 0) - (IF a_length < b_length THEN 1 ELSE 0)

CompareOps == {"Py_LT", "Py_LE", "Py_EQ", "Py_NE", "Py_GT", "Py_GE"}

\* Str_richcompare: python/lib.c 470-494. TRUE, FALSE or "NotImplemented".
Str_richcompare(mem, self, other, op) ==
    IF ~self.ok \/ ~other.ok THEN "NotImplemented"
    ELSE
    LET min_length == IF self.length < other.length THEN self.length ELSE other.length
        c == memcmp(mem, self.start, other.start, min_length)
        cmp_result == IF c = 0 THEN LengthOrder(self.length, other.length) ELSE c
    IN  CASE op = "Py_LT" -> cmp_result < 0
          [] op = "Py_LE" -> cmp_result <= 0
          [] op = "Py_EQ" -> cmp_result = 0
          [] op = "Py_NE" -> cmp_result # 0
          [] op = "Py_GT" -> cmp_result > 0
          [] op = "Py_GE" -> cmp_result >= 0

(***************************************************************************)
(* SpecView: indexing, containment and comparison called on every view     *)
(* over every memory content.                                              *)
(***************************************************************************)
GetitemCalls ==
    [op : {"Str_getitem"}, mem : Memories, self : Views, i : SSizeT, done : {FALSE}]
ContainsCalls ==
    [op : {"Str_contains"}, mem : Memories, self : Views, arg : Operands, done : {FALSE}]
CompareCalls ==
    [op : {"Str_richcompare"}, mem : Memories, self : Views, other : Operands,
     cmp : CompareOps, done : {FALSE}]

InitView ==
    /\ heap = EmptyHeap("posix") /\ ret = NoRet
    /\ q \in GetitemCalls \cup ContainsCalls \cup CompareCalls

CallGetitem ==
    /\ q.op = "Str_getitem" /\ ~q.done
    /\ q' = [op |-> q.op, mem |-> q.mem, self |-> q.self, i |-> q.i, done |-> TRUE,
             result |-> Str_getitem(q.mem, q.self, q.i)]
    /\ UNCHANGED <<heap, ret>>

CallContains ==
    /\ q.op = "Str_contains" /\ ~q.done
    /\ q' = [op |-> q.op, mem |-> q.mem, self |-> q.self, arg |-> q.arg, done |-> TRUE,
             result |-> Str_contains(q.mem, q.self, q.arg)]
    /\ UNCHANGED <<heap, ret>>

CallRichcompare ==
    /\ q.op = "Str_richcompare" /\ ~q.done
    /\ q' = [op |-> q.op, mem |-> q.mem, self |-> q.self, other |-> q.other,
             cmp |-> q.cmp, done |-> TRUE,
             result |-> Str_richcompare(q.mem, q.self, q.other, q.cmp)]
    /\ UNCHANGED <<heap, ret>>

NextView == CallGetitem \/ CallContains \/ CallRichcompare

SpecView == InitView /\ [][NextView]_vars

\* C8: contains(v, n) is true exactly when the search kernel reports a
\* position other than v.length, and a zero-length needle is contained in
\* every view, the zero-length view included.
C8_ContainsIffFound ==
    (q.op = "Str_contains" /\ q.done /\ q.arg.ok) =>
        /\ (q.result = 1) <=> (strzl_neon_find_substr(q.mem, q.self, q.arg) # q.self.length)
        /\ q.arg.length = 0 => q.result = 1

\* C9 as stated: as C9_ByteAt below, with the aliasing claimed of every
\* negative index: byte_at(i) with i < 0 gives what byte_at(i + length) gives.
C9_ByteAt_EveryNegativeIndex ==
    (q.op = "Str_getitem" /\ q.done) =>
        LET v == q.self
            adjusted == IF q.i < 0 THEN q.i + v.length ELSE q.i
        IN  /\ (q.result.err = "Index out of range") <=> (adjusted \notin 0 .. v.length - 1)
            /\ q.result.err = "" => q.result.byte = Content(q.mem, v)[adjusted + 1]
            /\ q.i < 0 => q.result = Str_getitem(q.mem, v, q.i + v.length)
            /\ v.length = 0 => q.result.err = "Index out of range"

\* C9: byte_at(i) fails exactly when the index, counted from the end when
\* negative, is outside [0, length); otherwise it reads the byte at that
\* index; byte_at(i) with -length <= i < 0 gives what byte_at(i + length)
\* gives; every index fails on a zero-length view.
C9_ByteAt ==
    (q.op = "Str_getitem" /\ q.done) =>
        LET v == q.self
            adjusted == IF q.i < 0 THEN q.i + v.length ELSE q.i
        IN  /\ (q.result.err = "Index out of range") <=> (adjusted \notin 0 .. v.length - 1)
            /\ q.result.err = "" => q.result.byte = Content(q.mem, v)[adjusted + 1]
            /\ (q.i < 0 /\ q.i + v.length >= 0)
                  => q.result = Str_getitem(q.mem, v, q.i + v.length)
            /\ v.length = 0 => q.result.err = "Index out of range"

\* The last byte of a full-length view was read through index -1.
C9_Witness ==
    /\ q.op = "Str_getitem" /\ q.done
    /\ q.self.length = MaxLen /\ q.i = -1
    /\ q.result.err = ""
    /\ q.result.byte = q.mem[PtrAdd(q.self.start, MaxLen - 1)]
    /\ q.result.byte # q.mem[q.self.start]

\* Byte-wise lexicographic order of two byte sequences.
RECURSIVE LexOrder(_, _)
LexOrder(s, t) ==
    IF s = <<>> /\ t = <<>> THEN "Equal"
    ELSE IF s = <<>> THEN "Less"
    ELSE IF t = <<>> THEN "Greater"
    ELSE IF Head(s) < Head(t) THEN "Less"
    ELSE IF Head(s) > Head(t) THEN "Greater"
    ELSE LexOrder(Tail(s), Tail(t))

\* The answer a comparison operator gives for an ordering.
AnswerFor(order, op) ==
    CASE op = "Py_LT" -> order = "Less"
      [] op = "Py_LE" -> order # "Greater"
      [] op = "Py_EQ" -> order = "Equal"
      [] op = "Py_NE" -> order # "Equal"
      [] op = "Py_GT" -> order = "Greater"
      [] op = "Py_GE" -> order # "Less"

\* The ordering Str_richcompare reports for a pair.
Ordering(mem, a, b) ==
    IF Str_richcompare(mem, a, b, "Py_LT") THEN "Less"
    ELSE IF Str_richcompare(mem, a, b, "Py_GT") THEN "Greater"
    ELSE "Equal"

Flip(order) ==
    IF order = "Less" THEN "Greater" ELSE IF order = "Greater" THEN "Less" ELSE "Equal"

\* C10: compare(a, b) answers by the byte-wise lexicographic order of the
\* contents (a proper prefix sorts first), is antisymmetric and transitive,
\* and depends on content alone: equal bytes compare Equal whatever region
\* they lie in, and only equal bytes do.
C10_CompareIsLexicographic ==
    (q.op = "Str_richcompare" /\ q.done /\ q.other.ok) =>
        LET a == q.self
            b == q.other
        IN  /\ q.result = AnswerFor(LexOrder(Content(q.mem, a), Content(q.mem, b)), q.cmp)
            /\ Ordering(q.mem, b, a) = Flip(Ordering(q.mem, a, b))
            /\ \A c \in Views :
                  (Ordering(q.mem, a, b) # "Greater" /\ Ordering(q.mem, b, c) # "Greater")
                      => Ordering(q.mem, a, c) # "Greater"
            /\ (Content(q.mem, a) = Content(q.mem, b)) <=> (Ordering(q.mem, a, b) = "Equal")

\* Two views of the same non-empty bytes, one in the buffer and one in the
\* mapping, were compared for equality and found equal.
C10_Witness ==
    /\ q.op = "Str_richcompare" /\ q.done /\ q.other.ok
    /\ q.self.start.reg # q.other.start.reg
    /\ q.self.length = MaxLen
    /\ Content(q.mem, q.self) = Content(q.mem, q.other)
    /\ q.cmp = "Py_EQ" /\ q.result = TRUE

(***************************************************************************)
(* SpecFind: the module-level find(haystack, needle, start, end) called    *)
(* with every count of positional arguments, every pair of string-like     *)
(* operands and every kind of bound.                                       *)
(***************************************************************************)

\* str_find_vectorcall: python/lib.c 128-163. args is the tuple of positional
\* arguments, the objects already exported and the integers already
\* converted; kwnames is never read. The result is an error message or the
\* position handed to PyLong_FromSize_t.
str_find_vectorcall(mem, args) ==
    LET nargs == Len(args)
    IN  IF nargs < 2 \/ nargs > 4
        THEN [err |-> "Invalid arguments", position |-> 0]
        ELSE IF ~args[1].ok
        THEN [err |-> "First argument (haystack) must be string-like", position |-> 0]
        ELSE IF ~args[2].ok
        THEN [err |-> "Second argument (needle) must be string-like", position |-> 0]
        ELSE
        LET start == IF nargs > 2 THEN args[3] ELSE 0
            end == IF nargs > 3 THEN args[4] ELSE PY_SSIZE_T_MAX
            normalized == slice(args[1].length, start, end)
            haystack == [ok |-> TRUE,
                         start |-> PtrAdd(args[1].start, normalized.offset),
                         length |-> normalized.length]
        IN  [err |-> "", position |-> strzl_neon_find_substr(mem, haystack, args[2])]

\* The haystacks lie in the mapping, the needles in the buffer; either may be
\* the empty view or an object that is not string-like.
FindHaystacks == {v \in Operands : v.start.reg # BufferRegion}
FindNeedles == {v \in Operands : v.start.reg \in {BufferRegion, NullPtr.reg}}

\* Bounds of every kind: inside the haystack, one and two past either end,
\* counted from the end, and the two extremes of Py_ssize_t.
FindBounds == (0 - MaxLen - 1 .. MaxLen + 1) \cup {PY_SSIZE_T_MIN, PY_SSIZE_T_MAX}

FindArgs ==
    UNION {{<<h>>, <<h, n>>} \cup {<<h, n, s>> : s \in FindBounds}
             \cup {<<h, n, s, e>> : s \in FindBounds, e \in FindBounds}
             \cup {<<h, n, 0, 0, 0>>}
           : h \in FindHaystacks, n \in FindNeedles}

FindCalls == [op : {"find"}, mem : Memories, args : FindArgs, done : {FALSE}]

InitFind ==
    /\ heap = EmptyHeap("posix") /\ ret = NoRet
    /\ q \in FindCalls

CallFind ==
    /\ q.op = "find" /\ ~q.done
    /\ q' = [op |-> q.op, mem |-> q.mem, args |-> q.args, done |-> TRUE,
             result |-> str_find_vectorcall(q.mem, q.args)]
    /\ UNCHANGED <<heap, ret>>

NextFind == CallFind

SpecFind == InitFind /\ [][NextFind]_vars

\* The clamped window of a call: what the Slice Normalizer makes of the
\* bounds the caller passed, the defaults standing for the absent ones.
FindWindow(args) ==
    slice(args[1].length,
          IF Len(args) > 2 THEN args[3] ELSE 0,
          IF Len(args) > 3 THEN args[4] ELSE PY_SSIZE_T_MAX)

\* The indices of the caller's haystack, inside the window, at which the
\* needle occurs without leaving the window.
FindMatches(mem, args) ==
    LET w == FindWindow(args)
    IN  {p \in 0 .. args[1].length :
            /\ w.offset <= p /\ p < w.offset + w.length
            /\ p + args[2].length <= w.offset + w.length
            /\ MatchesAt(mem, args[1], args[2], p)}

\* C11: a call of find with two string-like operands and any signed bounds
\* does not fail; the position p it returns lies in [0, haystack.length] of
\* the haystack the caller passed; when p is not the sentinel haystack.length
\* it is an index inside the clamped window at which the needle occurs in
\* that haystack; and when the needle occurs nowhere in the window, p is the
\* sentinel.
C11_FindInWindow ==
    (q.op = "find" /\ q.done /\ Len(q.args) \in 2 .. 4 /\ q.args[1].ok /\ q.args[2].ok) =>
        LET p == q.result.position
            length == q.args[1].length
        IN  /\ q.result.err = ""
            /\ p \in 0 .. length
            /\ p # length => p \in FindMatches(q.mem, q.args)
            /\ FindMatches(q.mem, q.args) = {} => p = length

====
